---- MODULE Spec2Model ----
\* Model of the NASA access-log pipeline:
\*   converterData.py  parses the log line by line and dumps the records as JSON;
\*   uploadFileDB.py   loads a JSON list and writes every entry to two Redis
\*                     instances, Memcached and PostgreSQL.
\* Text is a sequence of one-character strings.  A Python value is a record
\* tagged by its type: [int |-> n], [str |-> s], [dict |-> pairs], [none |-> TRUE];
\* a dict keeps its items in insertion order as a sequence of <<key, value>>.
EXTENDS Integers, Sequences, FiniteSets, TLC

VARIABLES
    \* converterData.py
    log_file,        \* the lines of NASA_access_log_Jul95, as the file iterator yields them
    pos,             \* number of lines the for loop has consumed
    parsed_data,     \* the list parsed_data
    output_file,     \* content of parsed_NASA_access_log.json as the converter leaves it
    n_dumps,         \* calls of json.dump made
    cpc,             \* position of the converter script
    \* uploadFileDB.py
    json_file,       \* content of parsed_NASA_access_log.json as the writer finds it
    run,             \* which execution of the script this is
    pc,              \* statement the script is at
    status,          \* "running", "done" (script ended) or "aborted" (uncaught exception)
    error,           \* the uncaught exception's kind, "" when none
    data,            \* the list json.load returned
    idx,             \* entries of data the for loop has taken
    sanitized_key,   \* locals of the loop body
    entry_json,
    redis_hash,      \* content of redis_client's database: key -> (field -> text)
    redis_simple,    \* content of redis_simple_client's database: key -> value
    memcached,       \* content of the memcached server: key -> value
    pg_exists,       \* whether table nasa_logs exists
    pg_table,        \* committed rows of nasa_logs
    pg_pending,      \* rows inserted by the open transaction
    pg_seq,          \* last value of the id column's sequence
    opened,          \* client objects the script has constructed
    closed,          \* client objects the script has called close() on
    issued,          \* per backend, the write calls of this run that returned
    n_commits        \* calls of pg_conn.commit() made by load_data_to_in_memory_db in this run

conv_vars == <<log_file, pos, parsed_data, output_file, n_dumps, cpc>>
writer_vars == <<json_file, run, pc, status, error, data, idx, sanitized_key, entry_json,
                 redis_hash, redis_simple, memcached, pg_exists, pg_table, pg_pending,
                 pg_seq, opened, closed, issued, n_commits>>
vars == <<conv_vars, writer_vars>>

\* ---------------------------------------------------------------- bounds
MaxLines == 2
MaxRecords == 2
MaxRuns == 2

\* ---------------------------------------------------------------- Python values
PyInt(n) == [int |-> n]
PyStr(s) == [str |-> s]
PyDict(items) == [dict |-> items]
None == [none |-> TRUE]

IsInt(v) == "int" \in DOMAIN v
IsDict(v) == "dict" \in DOMAIN v

\* (mutant) the test `if data:` dropped: whatever the parser returns is appended
TruthyAlways(v) == TRUE

\* `if data:` on what parse_log_line returns: None and the empty dict are falsy.
Truthy(v) == IsDict(v) /\ Len(v.dict) > 0

HasKey(d, k) == \E n \in 1..Len(d.dict) : d.dict[n][1] = k
\* d[k] for a key the dict holds
Get(d, k) == d.dict[CHOOSE n \in 1..Len(d.dict) : d.dict[n][1] = k][2]
Keys(d) == {d.dict[n][1] : n \in 1..Len(d.dict)}

\* ---------------------------------------------------------------- characters
\* The characters of the model's texts; of the class \s these three occur.
Whitespace == {" ", "\t", "\n"}
Digits == {"0", "1", "2", "3", "4", "5", "6", "7", "8", "9"}
DigitVal(c) ==
    CASE c = "0" -> 0 [] c = "1" -> 1 [] c = "2" -> 2 [] c = "3" -> 3 [] c = "4" -> 4
      [] c = "5" -> 5 [] c = "6" -> 6 [] c = "7" -> 7 [] c = "8" -> 8 [] c = "9" -> 9
DigitChar(n) ==
    CASE n = 0 -> "0" [] n = 1 -> "1" [] n = 2 -> "2" [] n = 3 -> "3" [] n = 4 -> "4"
      [] n = 5 -> "5" [] n = 6 -> "6" [] n = 7 -> "7" [] n = 8 -> "8" [] n = 9 -> "9"

\* int(s) for a text of decimal digits
RECURSIVE int(_)
int(s) == IF Len(s) = 0 THEN 0
          ELSE 10 * int(SubSeq(s, 1, Len(s) - 1)) + DigitVal(s[Len(s)])

\* str(n) for an integer
RECURSIVE str_nat(_)
str_nat(n) == IF n < 10 THEN <<DigitChar(n)>>
              ELSE Append(str_nat(n \div 10), DigitChar(n % 10))
str(n) == IF n < 0 THEN <<"-">> \o str_nat(-n) ELSE str_nat(n)

\* ---------------------------------------------------------------- the pattern
\* r'(\S+) - - \[(.*?)\] "(.*?)" (\d{3}) (\d+|-)' under re.match: anchored at the
\* start of the line, not at its end.  Each definition below is one piece of the
\* pattern together with everything that follows it, so that the backtracking
\* matcher's choice (greedy: longest first, lazy: shortest first) is the first
\* length for which the rest of the pattern matches.
NonSpace(c) == c \notin Whitespace
Dot(c) == c # "\n"
IsDigit(c) == c \in Digits

LitAt(s, p, lit) ==
    /\ p + Len(lit) - 1 <= Len(s)
    /\ \A q \in 1..Len(lit) : s[p + q - 1] = lit[q]

\* (\d+|-) at p
BytesAt(s, p) == p <= Len(s) /\ (IsDigit(s[p]) \/ s[p] = "-")
\* (\d{3}) (\d+|-) at p
StatusAt(s, p) ==
    /\ p + 3 <= Len(s)
    /\ \A q \in p..(p + 2) : IsDigit(s[q])
    /\ s[p + 3] = " "
    /\ BytesAt(s, p + 4)
\* (.*?)" (\d{3}) (\d+|-) at p: the positions the closing quote can take
RequestEnds(s, p) ==
    {k \in p..Len(s) : /\ \A q \in p..(k - 1) : Dot(s[q])
                       /\ LitAt(s, k, <<"\"", " ">>)
                       /\ StatusAt(s, k + 2)}
\* (.*?)\] "(.*?)" ... at p: the positions the closing bracket can take
TimestampEnds(s, p) ==
    {j \in p..Len(s) : /\ \A q \in p..(j - 1) : Dot(s[q])
                       /\ LitAt(s, j, <<"]", " ", "\"">>)
                       /\ RequestEnds(s, j + 3) # {}}
\* (\S+) - - \[ ...: the lengths the host can take
HostEnds(s) ==
    {i \in 1..Len(s) : /\ \A q \in 1..i : NonSpace(s[q])
                       /\ LitAt(s, i + 1, <<" ", "-", " ", "-", " ", "[">>)
                       /\ TimestampEnds(s, i + 7) # {}}

Max(S) == CHOOSE x \in S : \A y \in S : y <= x
Min(S) == CHOOSE x \in S : \A y \in S : x <= y

\* the longest run of digits starting at p (\d+ is greedy and nothing follows it)
DigitRunEnd(s, p) == Max({e \in p..Len(s) : \A q \in p..e : IsDigit(s[q])})

\* re.match(pattern, line): None, or the five groups
re_match(line) ==
    LET hostEnds == HostEnds(line) IN
    IF hostEnds = {} THEN None
    ELSE LET i == Max(hostEnds)
             j == Min(TimestampEnds(line, i + 7))
             k == Min(RequestEnds(line, j + 3))
             b == k + 6
         IN  [group |-> << SubSeq(line, 1, i),
                           SubSeq(line, i + 7, j - 1),
                           SubSeq(line, j + 3, k - 1),
                           SubSeq(line, k + 2, k + 4),
                           IF IsDigit(line[b]) THEN SubSeq(line, b, DigitRunEnd(line, b))
                           ELSE <<"-">> >>]

\* (mutant) the dash is not normalised: lines 34-35 dropped
parse_log_line_dash_kept(line) ==
    LET match == re_match(line) IN
    IF match = None THEN None
    ELSE PyDict(<< <<"host", PyStr(match.group[1])>>,
                   <<"timestamp", PyStr(match.group[2])>>,
                   <<"request", PyStr(match.group[3])>>,
                   <<"http_reply_code", PyInt(int(match.group[4]))>>,
                   <<"bytes", IF match.group[5] = <<"-">> THEN PyStr(<<"-">>)
                              ELSE PyInt(int(match.group[5]))>> >>)

parse_log_line(line) ==
    LET match == re_match(line) IN
    IF match = None THEN None
    ELSE LET bytes_reply == IF match.group[5] = <<"-">> THEN 0 ELSE int(match.group[5])
         IN  PyDict(<< <<"host", PyStr(match.group[1])>>,
                       <<"timestamp", PyStr(match.group[2])>>,
                       <<"request", PyStr(match.group[3])>>,
                       <<"http_reply_code", PyInt(int(match.group[4]))>>,
                       <<"bytes", PyInt(bytes_reply)>> >>)

\* ---------------------------------------------------------------- converterData.py
\* The lines the log may hold.  A line is built from its tokens; the file iterator
\* leaves the newline at the end of every line but possibly the last.
Marker == <<" ", "-", " ", "-", " ", "[">>
Line(h, t, r, s, b) ==
    h \o Marker \o t \o <<"]", " ", "\"">> \o r \o <<"\"", " ">> \o s \o <<" ">> \o b
Ok200 == <<"2", "0", "0">>

WellFormedLines ==
    {Line(h, t, <<"r">>, Ok200, b) \o <<"\n">> :
        h \in {<<"h">>, <<"g">>},
        t \in {<<"t", " ", "u">>},
        b \in {<<"-">>, <<"7">>, <<"1", "2">>}}

OddLines ==
    { Line(<<"h">>, <<"t">>, <<"s">>, <<"4", "0", "4">>, <<"0", "0", "7">>) \o <<"\n">>,
      Line(<<"h">>, <<"t">>, <<"r">>, Ok200, <<"1", "2">>),                    \* last line, no newline
      Line(<<"h">>, <<"t">>, <<"r">>, Ok200, <<"1", "2", "x">>) \o <<"\n">>,   \* text after the digits
      Line(<<"h">>, <<"t">>, <<"r">>, Ok200, <<"-", "5">>) \o <<"\n">>,        \* text after the dash
      Line(<<"h">>, <<"t">>, <<"r", "\"", " ", "s">>, Ok200, <<"7">>) \o <<"\n">>,  \* quote inside the request
      Line(<<"h">>, <<"t", "]", " ", "u">>, <<"r">>, Ok200, <<"7">>) \o <<"\n">>,   \* bracket inside the timestamp
      Line(<<"h">>, <<>>, <<>>, Ok200, <<"0">>) \o <<"\n">>,                   \* empty timestamp and request
      Line(<<"h">>, <<"t">>, <<"r">>, <<"2", "0">>, <<"7">>) \o <<"\n">>,      \* two-digit status
      Line(<<"h">>, <<"t">>, <<"r">>, <<"2", "0", "0", "0">>, <<"7">>) \o <<"\n">>, \* four-digit status
      Line(<<"h">>, <<"t">>, <<"r">>, Ok200, <<>>) \o <<"\n">>,                \* no byte count
      Line(<<" ", "h">>, <<"t">>, <<"r">>, Ok200, <<"7">>) \o <<"\n">>,        \* leading blank
      <<"h", "\t", "-", " ", "-", " ", "[", "t", "]", " ", "\"", "r", "\"", " ",
        "2", "0", "0", " ", "7", "\n">>,                                         \* tab after the host
      <<"\n">> }

Lines == WellFormedLines \cup OddLines

RECURSIVE SeqsUpTo(_, _)
SeqsUpTo(S, n) ==
    IF n = 0 THEN {<<>>}
    ELSE LET shorter == SeqsUpTo(S, n - 1)
         IN  shorter \cup {Append(q, x) : q \in {r \in shorter : Len(r) = n - 1}, x \in S}

\* Only the last line of a file can lack its newline.
Logs ==
    {log \in SeqsUpTo(Lines, MaxLines) :
        \A n \in 1..(Len(log) - 1) : log[n][Len(log[n])] = "\n"}

\* json.dump / json.dumps of a value: the JSON document, a list as [arr |-> ...],
\* a dict as [obj |-> members in the dict's order], a str and an int as themselves.
json_dumps(v) ==
    IF IsDict(v) THEN [obj |-> v.dict] ELSE v
json_dump(list) == [arr |-> [n \in 1..Len(list) |-> json_dumps(list[n])]]
\* json.load of a document holding a list of objects
json_loads(doc) ==
    IF "obj" \in DOMAIN doc THEN PyDict(doc.obj) ELSE doc
json_load(doc) == [n \in 1..Len(doc.arr) |-> json_loads(doc.arr[n])]

NoFile == [absent |-> TRUE]

\* The writer's variables while only the converter runs.
WriterIdle ==
    /\ json_file = NoFile /\ run = 0 /\ pc = "idle" /\ status = "idle" /\ error = ""
    /\ data = <<>> /\ idx = 0 /\ sanitized_key = <<>> /\ entry_json = None
    /\ redis_hash = <<>> /\ redis_simple = <<>> /\ memcached = <<>>
    /\ pg_exists = FALSE /\ pg_table = <<>> /\ pg_pending = <<>> /\ pg_seq = 0
    /\ opened = {} /\ closed = {}
    /\ issued = <<>> /\ n_commits = 0

\* parsed_data = [] and the log about to be read (lines 50-51)
InitConv ==
    /\ log_file \in Logs
    /\ pos = 0
    /\ parsed_data = <<>>
    /\ output_file = NoFile
    /\ n_dumps = 0
    /\ cpc = "for"
    /\ WriterIdle

\* one iteration of `for line in file` (lines 52-55)
ReadLine ==
    /\ cpc = "for"
    /\ pos < Len(log_file)
    /\ LET d == parse_log_line(log_file[pos + 1])
       IN  parsed_data' = IF Truthy(d) THEN Append(parsed_data, d) ELSE parsed_data
    /\ pos' = pos + 1
    /\ UNCHANGED <<log_file, output_file, n_dumps, cpc, writer_vars>>

\* the loop is exhausted: json.dump(parsed_data, json_file, indent=4) (lines 57-60)
DumpJson ==
    /\ cpc = "for"
    /\ pos = Len(log_file)
    /\ output_file' = json_dump(parsed_data)
    /\ n_dumps' = n_dumps + 1
    /\ cpc' = "done"
    /\ UNCHANGED <<log_file, pos, parsed_data, writer_vars>>

NextConv == ReadLine \/ DumpJson

SpecConv == InitConv /\ [][NextConv]_vars

\* what the converter leaves in parsed_NASA_access_log.json for a given log
RECURSIVE ParsedData(_)
ParsedData(log) ==
    IF Len(log) = 0 THEN <<>>
    ELSE LET before == ParsedData(SubSeq(log, 1, Len(log) - 1))
             d == parse_log_line(log[Len(log)])
         IN  IF Truthy(d) THEN Append(before, d) ELSE before
ConverterOutput(log) == json_dump(ParsedData(log))

\* ---------------------------------------------------------------- uploadFileDB.py
\* re.sub(r'\s+', '_', key): scanning from the left, every maximal run of
\* whitespace is replaced by one underscore.
RECURSIVE SkipWhitespace(_)
SkipWhitespace(s) ==
    IF Len(s) > 0 /\ Head(s) \in Whitespace THEN SkipWhitespace(Tail(s)) ELSE s
\* (mutant) the pattern r'\s' instead of r'\s+': every whitespace character
\* becomes an underscore
RECURSIVE sanitize_each_char(_)
sanitize_each_char(key) ==
    IF Len(key) = 0 THEN <<>>
    ELSE <<IF Head(key) \in Whitespace THEN "_" ELSE Head(key)>> \o sanitize_each_char(Tail(key))

RECURSIVE sanitize_key(_)
sanitize_key(key) ==
    IF Len(key) = 0 THEN <<>>
    ELSE IF Head(key) \in Whitespace THEN <<"_">> \o sanitize_key(SkipWhitespace(key))
    ELSE <<Head(key)>> \o sanitize_key(Tail(key))

\* a value inside an f-string
Format(v) == IF IsInt(v) THEN str(v.int) ELSE v.str
\* f"{entry['host']}:{entry['timestamp']}"
unique_key(entry) == Format(Get(entry, "host")) \o <<":">> \o Format(Get(entry, "timestamp"))

\* The entries the JSON file may hold.  An entry named as the writer reads it:
Entry(h, t, r, s, b) ==
    PyDict(<< <<"host", PyStr(h)>>, <<"timestamp", PyStr(t)>>, <<"request", PyStr(r)>>,
              <<"status", PyInt(s)>>, <<"bytes_sent", PyInt(b)>> >>)
Entries ==
    {Entry(<<"h">>, t, r, 200, 7) : t \in {<<"t">>, <<"t", " ", "\t", "u">>, <<"t", "_", "u">>},
                                    r \in {<<"r">>, <<"s">>}}
      \cup {Entry(<<"g">>, <<"t">>, <<"r">>, 404, 0)}
EntryFiles == {json_dump(list) : list \in SeqsUpTo(Entries, MaxRecords)}

\* ... and the files converterData.py writes, for logs of these lines:
SampleLines ==
    { Line(<<"h">>, <<"t">>, <<"r">>, Ok200, <<"7">>) \o <<"\n">>,
      Line(<<"h">>, <<"t">>, <<"s">>, <<"4", "0", "4">>, <<"-">>) \o <<"\n">>,
      Line(<<"g">>, <<"t", " ", "u">>, <<"r">>, Ok200, <<"1", "2">>) \o <<"\n">>,
      Line(<<"h">>, <<"t">>, <<"r">>, <<"2", "0">>, <<"7">>) \o <<"\n">> }
ConverterFiles == {ConverterOutput(log) : log \in SeqsUpTo(SampleLines, MaxRecords)}

Files == EntryFiles \cup ConverterFiles \cup {NoFile}

Handles == {"redis_client", "redis_simple_client", "memcached_client", "pg_conn", "pg_cursor"}
Backends == {"redis_client", "redis_simple_client", "memcached_client", "pg_cursor"}
NoneIssued == [b \in Backends |-> 0]

\* (mutant) set-if-not-exists: a key already present keeps its value
PutIfAbsent(store, k, v) ==
    [x \in DOMAIN store \cup {k} |-> IF x \in DOMAIN store THEN store[x] ELSE v]

\* a key-value store with one key set
Put(store, k, v) == [x \in DOMAIN store \cup {k} |-> IF x = k THEN v ELSE store[x]]

\* how redis-py encodes a value it sends: an int by its decimal text, a str as it is
redis_encode(v) == IF IsInt(v) THEN str(v.int) ELSE v.str
\* HSET key field value [field value ...]: sets these fields of the hash at the key
\* and leaves its other fields alone
hset(db, k, mapping) ==
    LET old == IF k \in DOMAIN db THEN db[k] ELSE <<>>
    IN  Put(db, k, [f \in DOMAIN old \cup Keys(mapping) |->
                       IF f \in Keys(mapping) THEN redis_encode(Get(mapping, f)) ELSE old[f]])

\* how psycopg2 passes a parameter
adapt(v) == IF IsInt(v) THEN v.int ELSE v.str
\* The unique constraints of nasa_logs as create_pg_table declares it: the primary key.
UniqueConstraints == {{"id"}}
\* whether a row conflicts with one the transaction sees
Conflicts(row, rows) ==
    \E c \in UniqueConstraints : \E n \in 1..Len(rows) : \A col \in c : rows[n][col] = row[col]
\* INSERT ... ON CONFLICT DO NOTHING: the rows the transaction has inserted, afterwards
insert_on_conflict_do_nothing(row, committed, pending) ==
    IF Conflicts(row, committed \o pending) THEN pending ELSE Append(pending, row)

\* the script starts: nothing is connected, the servers hold nothing
Init ==
    /\ json_file \in Files
    /\ run = 1
    /\ pc = "connect"
    /\ status = "running"
    /\ error = ""
    /\ data = <<>>
    /\ idx = 0
    /\ sanitized_key = <<>>
    /\ entry_json = None
    /\ redis_hash = <<>>
    /\ redis_simple = <<>>
    /\ memcached = <<>>
    /\ pg_exists = FALSE
    /\ pg_table = <<>>
    /\ pg_pending = <<>>
    /\ pg_seq = 0
    /\ opened = {}
    /\ closed = {}
    /\ issued = NoneIssued
    /\ n_commits = 0
    /\ log_file = <<>> /\ pos = 0 /\ parsed_data = <<>> /\ output_file = NoFile
    /\ n_dumps = 0 /\ cpc = "idle"

\* An exception nobody catches ends the process; the server rolls back the
\* transaction of a connection that goes away.
Raise(kind) ==
    /\ status' = "aborted"
    /\ error' = kind
    /\ pg_pending' = <<>>

\* lines 10-21: the clients are constructed
Connect ==
    /\ status = "running" /\ pc = "connect"
    /\ opened' = Handles
    /\ pc' = "create_pg_table"
    /\ UNCHANGED <<conv_vars, json_file, run, status, error, data, idx, sanitized_key,
                   entry_json, redis_hash, redis_simple, memcached, pg_exists, pg_table,
                   pg_pending, pg_seq, closed, issued, n_commits>>

\* lines 63-77: CREATE TABLE IF NOT EXISTS, commit
create_pg_table ==
    /\ status = "running" /\ pc = "create_pg_table"
    /\ pg_exists' = TRUE
    /\ pg_table' = pg_table \o pg_pending
    /\ pg_pending' = <<>>
    /\ pc' = "open"
    /\ UNCHANGED <<conv_vars, json_file, run, status, error, data, idx, sanitized_key,
                   entry_json, redis_hash, redis_simple, memcached, pg_seq, opened, closed,
                   issued, n_commits>>

\* lines 28-29: open(json_file), json.load
LoadFile ==
    /\ status = "running" /\ pc = "open"
    /\ IF json_file = NoFile
       THEN /\ Raise("FileNotFoundError")
            /\ UNCHANGED <<data, pc>>
       ELSE /\ data' = json_load(json_file)
            /\ pc' = "for"
            /\ UNCHANGED <<status, error, pg_pending>>
    /\ idx' = 0
    /\ UNCHANGED <<conv_vars, json_file, run, sanitized_key, entry_json, redis_hash,
                   redis_simple, memcached, pg_exists, pg_table, pg_seq, opened, closed,
                   issued, n_commits>>

\* lines 31-35: the loop takes the next entry and builds its key and its JSON text
NextEntry ==
    /\ status = "running" /\ pc = "for"
    /\ idx < Len(data)
    /\ LET entry == data[idx + 1] IN
       IF HasKey(entry, "host") /\ HasKey(entry, "timestamp")
       THEN /\ sanitized_key' = sanitize_key(unique_key(entry))
            /\ entry_json' = json_dumps(entry)
            /\ pc' = "hset"
            /\ UNCHANGED <<status, error, pg_pending>>
       ELSE /\ Raise("KeyError")
            /\ UNCHANGED <<sanitized_key, entry_json, pc>>
    /\ idx' = idx + 1
    /\ UNCHANGED <<conv_vars, json_file, run, data, redis_hash, redis_simple, memcached,
                   pg_exists, pg_table, pg_seq, opened, closed, issued, n_commits>>

\* line 37: redis_client.hset(sanitized_key, mapping=entry)
HSet ==
    /\ status = "running" /\ pc = "hset"
    /\ redis_hash' = hset(redis_hash, sanitized_key, data[idx])
    /\ issued' = [issued EXCEPT !["redis_client"] = @ + 1]
    /\ pc' = "set"
    /\ UNCHANGED <<conv_vars, json_file, run, status, error, data, idx, sanitized_key,
                   entry_json, redis_simple, memcached, pg_exists, pg_table, pg_pending,
                   pg_seq, opened, closed, n_commits>>

\* line 39: redis_simple_client.set(sanitized_key, entry_json)
RedisSet ==
    /\ status = "running" /\ pc = "set"
    /\ redis_simple' = Put(redis_simple, sanitized_key, entry_json)
    /\ issued' = [issued EXCEPT !["redis_simple_client"] = @ + 1]
    /\ pc' = "memcached_set"
    /\ UNCHANGED <<conv_vars, json_file, run, status, error, data, idx, sanitized_key,
                   entry_json, redis_hash, memcached, pg_exists, pg_table, pg_pending,
                   pg_seq, opened, closed, n_commits>>

\* line 41: memcached_client.set(sanitized_key, entry_json)
MemcachedSet ==
    /\ status = "running" /\ pc = "memcached_set"
    /\ memcached' = Put(memcached, sanitized_key, entry_json)
    /\ issued' = [issued EXCEPT !["memcached_client"] = @ + 1]
    /\ pc' = "insert"
    /\ UNCHANGED <<conv_vars, json_file, run, status, error, data, idx, sanitized_key,
                   entry_json, redis_hash, redis_simple, pg_exists, pg_table, pg_pending,
                   pg_seq, opened, closed, n_commits>>

\* (mutant) the connection in autocommit mode: every INSERT is committed at once
InsertAutocommit ==
    /\ status = "running" /\ pc = "insert"
    /\ LET entry == data[idx] IN
       /\ \A k \in {"host", "timestamp", "request", "status", "bytes_sent"} : HasKey(entry, k)
       /\ pg_table' = pg_table \o insert_on_conflict_do_nothing(
                                [id |-> pg_seq + 1,
                                 host |-> adapt(Get(entry, "host")),
                                 timestamp |-> adapt(Get(entry, "timestamp")),
                                 request |-> adapt(Get(entry, "request")),
                                 status |-> adapt(Get(entry, "status")),
                                 bytes_sent |-> adapt(Get(entry, "bytes_sent"))],
                                pg_table, <<>>)
    /\ pg_seq' = pg_seq + 1
    /\ issued' = [issued EXCEPT !["pg_cursor"] = @ + 1]
    /\ pc' = "for"
    /\ UNCHANGED <<conv_vars, json_file, run, status, error, data, idx, sanitized_key,
                   entry_json, redis_hash, redis_simple, memcached, pg_exists, pg_pending,
                   opened, closed, n_commits>>

\* lines 43-57: the parameters are looked up in the entry, then the INSERT runs;
\* the id column takes the next value of its sequence
Insert ==
    /\ status = "running" /\ pc = "insert"
    /\ LET entry == data[idx] IN
       IF \A k \in {"host", "timestamp", "request", "status", "bytes_sent"} : HasKey(entry, k)
       THEN /\ pg_pending' = insert_on_conflict_do_nothing(
                                [id |-> pg_seq + 1,
                                 host |-> adapt(Get(entry, "host")),
                                 timestamp |-> adapt(Get(entry, "timestamp")),
                                 request |-> adapt(Get(entry, "request")),
                                 status |-> adapt(Get(entry, "status")),
                                 bytes_sent |-> adapt(Get(entry, "bytes_sent"))],
                                pg_table, pg_pending)
            /\ pg_seq' = pg_seq + 1
            /\ issued' = [issued EXCEPT !["pg_cursor"] = @ + 1]
            /\ pc' = "for"
            /\ UNCHANGED <<status, error>>
       ELSE /\ Raise("KeyError")
            /\ UNCHANGED <<pg_seq, issued, pc>>
    /\ UNCHANGED <<conv_vars, json_file, run, data, idx, sanitized_key, entry_json,
                   redis_hash, redis_simple, memcached, pg_exists, pg_table, opened, closed,
                   n_commits>>

\* lines 59-61: the loop is exhausted: pg_conn.commit(), then the message
Commit ==
    /\ status = "running" /\ pc = "for"
    /\ idx = Len(data)
    /\ pg_table' = pg_table \o pg_pending
    /\ pg_pending' = <<>>
    /\ n_commits' = n_commits + 1
    /\ pc' = "close"
    /\ UNCHANGED <<conv_vars, json_file, run, status, error, data, idx, sanitized_key,
                   entry_json, redis_hash, redis_simple, memcached, pg_exists, pg_seq,
                   opened, closed, issued>>

\* (mutant) line 81 dropped: the connection is never closed
CloseCursorOnly ==
    /\ status = "running" /\ pc = "close"
    /\ closed' = closed \cup {"pg_cursor"}
    /\ status' = "done"
    /\ pc' = "end"
    /\ UNCHANGED <<conv_vars, json_file, run, error, data, idx, sanitized_key, entry_json,
                   redis_hash, redis_simple, memcached, pg_exists, pg_table, pg_pending,
                   pg_seq, opened, issued, n_commits>>

\* lines 80-81: pg_cursor.close(), pg_conn.close(); the script ends
Close ==
    /\ status = "running" /\ pc = "close"
    /\ closed' = closed \cup {"pg_cursor", "pg_conn"}
    /\ status' = "done"
    /\ pc' = "end"
    /\ UNCHANGED <<conv_vars, json_file, run, error, data, idx, sanitized_key, entry_json,
                   redis_hash, redis_simple, memcached, pg_exists, pg_table, pg_pending,
                   pg_seq, opened, issued, n_commits>>

BackendSteps == {"connect", "create_pg_table", "hset", "set", "memcached_set", "insert"}

\* (mutant) each write wrapped in try/except: the exception is swallowed and the
\* loop body goes on with its next statement
BackendFailsCaught ==
    /\ status = "running"
    /\ pc \in {"hset", "set", "memcached_set", "insert"}
    /\ pc' = CASE pc = "hset" -> "set" [] pc = "set" -> "memcached_set"
              [] pc = "memcached_set" -> "insert" [] pc = "insert" -> "for"
    /\ UNCHANGED <<conv_vars, json_file, run, status, error, data, idx, sanitized_key,
                   entry_json, redis_hash, redis_simple, memcached, pg_exists, pg_table,
                   pg_pending, pg_seq, opened, closed, issued, n_commits>>

\* A call on a backend raises (the server is down, the connection breaks): nothing
\* in the script catches it.
BackendFails ==
    /\ status = "running"
    /\ pc \in BackendSteps \/ (pc = "for" /\ idx = Len(data))
    /\ Raise("BackendError")
    /\ UNCHANGED <<conv_vars, json_file, run, pc, data, idx, sanitized_key, entry_json,
                   redis_hash, redis_simple, memcached, pg_exists, pg_table, pg_seq, opened,
                   closed, issued, n_commits>>

\* The script is started again, on the same file and the same servers.
RunAgain ==
    /\ status \in {"done", "aborted"}
    /\ run < MaxRuns
    /\ run' = run + 1
    /\ pc' = "connect"
    /\ status' = "running"
    /\ error' = ""
    /\ data' = <<>>
    /\ idx' = 0
    /\ sanitized_key' = <<>>
    /\ entry_json' = None
    /\ opened' = {}
    /\ closed' = {}
    /\ issued' = NoneIssued
    /\ n_commits' = 0
    /\ UNCHANGED <<conv_vars, json_file, redis_hash, redis_simple, memcached, pg_exists,
                   pg_table, pg_pending, pg_seq>>

Next ==
    \/ Connect
    \/ create_pg_table
    \/ LoadFile
    \/ NextEntry
    \/ HSet
    \/ RedisSet
    \/ MemcachedSet
    \/ Insert
    \/ Commit
    \/ Close
    \/ BackendFails
    \/ RunAgain

Spec == Init /\ [][Next]_vars

\* ================================================================ claims
\* ---------------------------------------------------------------- helpers
\* the key the writer stores an entry under
KeyOf(entry) == sanitize_key(unique_key(entry))
\* the entries of data whose write to backend b has returned in this run
Written(b) == 1..issued[b]
\* whether entry n is the last one written to b under its key
LastUnderKey(b, n) == \A m \in Written(b) : m > n => KeyOf(data[m]) # KeyOf(data[n])
\* the fields of a record as text, the form a field-mapped store keeps them in
FieldsAsText(entry) == [f \in Keys(entry) |-> Format(Get(entry, f))]
\* the highest row id handed out before this run began
IdsBefore == pg_seq - issued["pg_cursor"]
AllRows == pg_table \o pg_pending
WriteSteps == <<"hset", "set", "memcached_set", "insert">>
BackendOfStep == <<"redis_client", "redis_simple_client", "memcached_client", "pg_cursor">>
StepNo(p) == CHOOSE n \in 1..4 : WriteSteps[n] = p
InLoopBody == status = "running" /\ pc \in {"hset", "set", "memcached_set", "insert"}

\* ---------------------------------------------------------------- C1
\* C1: run on a file the converter produced, the writer issues one write per
\* Record to each of the four clients and reaches the commit, unless a backend
\* call fails.
C1_WriterConsumesConverterOutput ==
    (json_file \in ConverterFiles /\ status \in {"done", "aborted"} /\ error # "BackendError")
        => /\ status = "done"
           /\ n_commits = 1
           /\ \A b \in Backends : issued[b] = Len(json_file.arr)

\* ---------------------------------------------------------------- C2
\* C2: in each key-value store, every key written in this run holds the content
\* of the last entry written under that key; starting from empty stores (the
\* first run) the stores hold no other key.
C2_LastWriteWins ==
    /\ \A n \in Written("redis_client") :
          LastUnderKey("redis_client", n)
              => /\ KeyOf(data[n]) \in DOMAIN redis_hash
                 /\ redis_hash[KeyOf(data[n])] = FieldsAsText(data[n])
    /\ \A n \in Written("redis_simple_client") :
          LastUnderKey("redis_simple_client", n)
              => /\ KeyOf(data[n]) \in DOMAIN redis_simple
                 /\ json_loads(redis_simple[KeyOf(data[n])]) = data[n]
    /\ \A n \in Written("memcached_client") :
          LastUnderKey("memcached_client", n)
              => /\ KeyOf(data[n]) \in DOMAIN memcached
                 /\ json_loads(memcached[KeyOf(data[n])]) = data[n]
    /\ run = 1 => /\ DOMAIN redis_hash = {KeyOf(data[n]) : n \in Written("redis_client")}
                  /\ DOMAIN redis_simple = {KeyOf(data[n]) : n \in Written("redis_simple_client")}
                  /\ DOMAIN memcached = {KeyOf(data[n]) : n \in Written("memcached_client")}

\* a completed first run over two different entries that share their key
C2_Witness ==
    /\ run = 1 /\ status = "done" /\ Len(data) = 2
    /\ KeyOf(data[1]) = KeyOf(data[2]) /\ data[1] # data[2]
    /\ issued["redis_client"] = 2 /\ issued["memcached_client"] = 2

\* ---------------------------------------------------------------- C3
\* C3: of two Records that share host and timestamp and differ in request, the
\* relational store keeps at most the first.
C3_SecondInsertSkipped ==
    (run = 1 /\ status = "done")
        => \A n, m \in 1..Len(pg_table) :
              ~ ( /\ n < m
                  /\ pg_table[n].host = pg_table[m].host
                  /\ pg_table[n].timestamp = pg_table[m].timestamp
                  /\ pg_table[n].request # pg_table[m].request )

\* ---------------------------------------------------------------- C4
\* C4: a later run inserts no row for a Record the table already held when the
\* run began.
C4_RerunSkipsStoredRecords ==
    run > 1 =>
        \A n, m \in 1..Len(AllRows) :
            (AllRows[n].id <= IdsBefore /\ AllRows[m].id > IdsBefore)
                => ~ ( /\ AllRows[n].host = AllRows[m].host
                       /\ AllRows[n].timestamp = AllRows[m].timestamp
                       /\ AllRows[n].request = AllRows[m].request
                       /\ AllRows[n].status = AllRows[m].status
                       /\ AllRows[n].bytes_sent = AllRows[m].bytes_sent )

\* ---------------------------------------------------------------- C5
\* C5 as stated: when the write of a Record to one backend fails, the writes of
\* that Record to the other backends are still issued.
C5_OtherWritesStillIssued ==
    (status = "aborted" /\ error = "BackendError" /\ pc \in {"hset", "set", "memcached_set", "insert"})
        => \A n \in 1..4 : n # StepNo(pc) => issued[BackendOfStep[n]] = idx

\* C5 as amended: a write step that does not complete ends the run; the writes
\* of that Record made before it stand (the key-value stores are left as they
\* were), the writes after it are not issued, and nothing more is issued in the
\* run.
C5_FailureAbortsRun ==
    /\ [][ (InLoopBody /\ issued' = issued)
              => /\ status' = "aborted"
                 /\ redis_hash' = redis_hash
                 /\ redis_simple' = redis_simple
                 /\ memcached' = memcached
                 /\ \A n \in 1..4 :
                       issued'[BackendOfStep[n]] = IF n < StepNo(pc) THEN idx ELSE idx - 1 ]_vars
    /\ [][ status = "aborted" => (issued' = issued \/ run' # run) ]_vars

\* the memcached write of the second entry failed after both Redis writes
C5_Witness ==
    /\ status = "aborted" /\ error = "BackendError" /\ pc = "memcached_set" /\ idx = 2
    /\ issued["redis_client"] = 2 /\ issued["redis_simple_client"] = 2
    /\ issued["memcached_client"] = 1 /\ issued["pg_cursor"] = 1

\* ---------------------------------------------------------------- C6
\* C6: the inserts are committed once, after the last entry: until the commit no
\* row inserted by this run is in the table; a run that completes has committed
\* once and left nothing pending; a run that aborts has committed none of its
\* rows, and the keys it wrote to the key-value stores are still there.
C6_CommitOnceAtEnd ==
    /\ n_commits = 0 => \A n \in 1..Len(pg_table) : pg_table[n].id <= IdsBefore
    /\ n_commits > 0 => (n_commits = 1 /\ idx = Len(data) /\ pc \in {"close", "end"})
    /\ status = "done"
          => /\ n_commits = 1
             /\ pg_pending = <<>>
             /\ Cardinality({n \in 1..Len(pg_table) : pg_table[n].id > IdsBefore})
                   = issued["pg_cursor"]
    /\ status = "aborted"
          => /\ n_commits = 0
             /\ pg_pending = <<>>
             /\ \A n \in Written("redis_client") : KeyOf(data[n]) \in DOMAIN redis_hash
             /\ \A n \in Written("redis_simple_client") : KeyOf(data[n]) \in DOMAIN redis_simple
             /\ \A n \in Written("memcached_client") : KeyOf(data[n]) \in DOMAIN memcached

\* the first run aborted on its second entry, after the first entry's insert
C6_Witness ==
    /\ run = 1 /\ status = "aborted" /\ idx = 2
    /\ issued["pg_cursor"] = 1 /\ issued["redis_client"] = 2
    /\ pg_table = <<>> /\ DOMAIN redis_hash # {}

\* ---------------------------------------------------------------- C7
\* the text with every whitespace character that follows another one dropped
\* and the remaining ones turned into underscores
FirstOfRun(s) == {p \in 1..Len(s) : s[p] \notin Whitespace \/ p = 1 \/ s[p - 1] \notin Whitespace}
Underscored(s) ==
    [n \in 1..Cardinality(FirstOfRun(s)) |->
        LET p == CHOOSE q \in FirstOfRun(s) : Cardinality({r \in FirstOfRun(s) : r <= q}) = n
        IN  IF s[p] \in Whitespace THEN "_" ELSE s[p]]
HostText == Get(data[idx], "host").str
TimestampText == Get(data[idx], "timestamp").str

\* C7 as stated: the key is host directly followed by timestamp, whitespace
\* runs turned into single underscores.
C7_KeyIsHostTimestamp ==
    InLoopBody => sanitized_key = Underscored(HostText \o TimestampText)

\* C7 as amended: the key is host, a colon, then timestamp, whitespace runs
\* turned into single underscores; it is computed from host and timestamp alone.
C7_KeyIsHostColonTimestamp ==
    InLoopBody => sanitized_key = Underscored(HostText \o <<":">> \o TimestampText)

\* an entry whose timestamp holds a run of two whitespace characters
C7_Witness ==
    /\ InLoopBody
    /\ TimestampText = <<"t", " ", "\t", "u">>
    /\ sanitized_key = <<"h", ":", "t", "_", "u">>

\* ---------------------------------------------------------------- C10
\* C10 as stated: a run that completes has committed once, has closed every
\* handle it opened, and has written no entry to a backend more than once.
C10_AllHandlesClosed ==
    /\ status = "done" => (n_commits = 1 /\ closed = opened)
    /\ \A b \in Backends : issued[b] <= idx

\* C10 as amended: a run that completes has committed once and has closed the
\* relational store's cursor and connection, and only those, after the commit;
\* no entry is written to a backend more than once.
C10_RelationalHandlesClosed ==
    /\ status = "done" => (n_commits = 1 /\ closed = {"pg_cursor", "pg_conn"}
                           /\ \A b \in Backends : issued[b] = Len(data))
    /\ closed # {} => n_commits = 1
    /\ \A b \in Backends : issued[b] <= idx /\ idx <= Len(data)

C10_Witness ==
    /\ status = "done" /\ Len(data) = 2 /\ opened = Handles
    /\ "redis_client" \notin closed

\* ---------------------------------------------------------------- C8, C9
\* the lines read so far that the pattern accepts, by position
Accepted == {p \in 1..pos : re_match(log_file[p]) # None}
\* the n-th smallest member of a set of positions
Nth(S, n) == CHOOSE p \in S : Cardinality({q \in S : q <= p}) = n
ByteToken(line) == re_match(line).group[5]
RECURSIVE Pow10(_)
Pow10(n) == IF n = 0 THEN 1 ELSE 10 * Pow10(n - 1)
\* the number a text of digits denotes: each digit weighted by its place
RECURSIVE DecimalValue(_)
DecimalValue(t) ==
    IF Len(t) = 0 THEN 0
    ELSE DigitVal(Head(t)) * Pow10(Len(t) - 1) + DecimalValue(Tail(t))

\* C8: the bytes field of every Record is an integer >= 0: 0 when the line's
\* byte token is "-", otherwise the number the token's digits denote.
C8_BytesNonNegative ==
    LET accepted == Accepted IN
    \A n \in 1..Len(parsed_data) :
        /\ HasKey(parsed_data[n], "bytes")
        /\ IsInt(Get(parsed_data[n], "bytes"))
        /\ Get(parsed_data[n], "bytes").int >= 0
        /\ n <= Cardinality(accepted)
              => LET token == ByteToken(log_file[Nth(accepted, n)])
                 IN  Get(parsed_data[n], "bytes").int
                        = IF token = <<"-">> THEN 0 ELSE DecimalValue(token)

\* a line with a dash and a line with a two-digit count have been parsed
C8_Witness ==
    /\ Len(parsed_data) = 2 /\ Cardinality(Accepted) = 2
    /\ ByteToken(log_file[1]) = <<"-">> /\ Get(parsed_data[1], "bytes") = PyInt(0)
    /\ ByteToken(log_file[2]) = <<"1", "2">> /\ Get(parsed_data[2], "bytes") = PyInt(12)

\* C9: after any prefix of the lines, parsed_data is the Records of the accepted
\* lines of the prefix in input order (a rejected line adds nothing, an accepted
\* line adds its Record at the end); the JSON file is written once, after the
\* last line, and holds that sequence.
C9_AccumulatesInOrder ==
    LET accepted == Accepted IN
    /\ Len(parsed_data) = Cardinality(accepted)
    /\ \A n \in 1..Len(parsed_data) :
          n <= Cardinality(accepted)
              => parsed_data[n] = parse_log_line(log_file[Nth(accepted, n)])
    /\ n_dumps = IF cpc = "done" THEN 1 ELSE 0
    /\ output_file # NoFile
          => (cpc = "done" /\ pos = Len(log_file) /\ json_load(output_file) = parsed_data)
    /\ cpc = "done" => output_file # NoFile

\* a rejected line followed by an accepted one, and the file written
C9_Witness ==
    /\ cpc = "done" /\ Len(log_file) = 2
    /\ re_match(log_file[1]) = None /\ re_match(log_file[2]) # None
    /\ Len(parsed_data) = 1 /\ output_file # NoFile

====
